---- MODULE Spec2Model ----
(***************************************************************************)
(* Model of db.py: JsonManager (a JSON document per file path) and its two *)
(* record managers RegisteredBills and PaidBills.                          *)
(*                                                                         *)
(* A file is absent, holds bytes that are not UTF-8, holds text that is    *)
(* not JSON, or holds a JSON object (a function from keys to values).      *)
(* A Python exception leaving a method is recorded in last.raised.         *)
(* Text is a sequence of one-character strings, so that strftime and       *)
(* strptime are modelled by what they do to the characters.                *)
(***************************************************************************)
EXTENDS Integers, Sequences, FiniteSets, TLC

\* managers       the manager objects the process has constructed
\* billsFile      the file at RegisteredBills' path
\* paidFile       the file at PaidBills' path
\* platform       the C library behind strftime
\* last           the last method called: its arguments and its outcome
\* assignedBills  the IDs add_bill has assigned so far (history)
\* assignedPaid   the IDs pay_bill has assigned so far (history)
\* pc, local, callArg, newIdOf
\*                two concurrent add_bill calls: where each is, its data, its
\*                arguments and its new_id
\* writesSeen, nWrites, lastWriter
\*                the writes of the file so far, how many each call's read
\*                came after, and whose write was the last (history)
VARIABLES managers, billsFile, paidFile, platform, last, assignedBills,
          assignedPaid, pc, local, callArg, newIdOf, writesSeen, nWrites, lastWriter

vars == <<managers, billsFile, paidFile, platform, last, assignedBills,
          assignedPaid, pc, local, callArg, newIdOf, writesSeen, nWrites, lastWriter>>

seqVars == <<managers, billsFile, paidFile, platform, last, assignedBills,
            assignedPaid>>

raceVars == <<pc, local, callArg, newIdOf, writesSeen, nWrites, lastWriter>>

\* ---------------------------------------------------------------- bounds
\* The longest collection an add may produce.
MaxLen == 2

\* The largest ID an add may assign.
MaxId == 3

\* ------------------------------------------------------------- text, dates
DigitChars == <<"0", "1", "2", "3", "4", "5", "6", "7", "8", "9">>

DigitSet == {DigitChars[i] : i \in 1..10}

DigitChar(d) == DigitChars[d + 1]

DigitVal(c) == CHOOSE d \in 0..9 : DigitChars[d + 1] = c

RECURSIVE Decimal(_)
\* The decimal digits of n >= 0, without padding.
Decimal(n) ==
    IF n < 10 THEN <<DigitChar(n)>>
    ELSE Decimal(n \div 10) \o <<DigitChar(n % 10)>>

RECURSIVE Pad(_, _)
\* s padded on the left with zeros to at least w characters.
Pad(s, w) == IF Len(s) >= w THEN s ELSE Pad(<<"0">> \o s, w)

\* %Y of strftime: the C library's output. glibc prints the year without
\* padding; the other C libraries pad it to four digits.
FormatYear(year, plat) ==
    IF plat = "glibc" THEN Decimal(year) ELSE Pad(Decimal(year), 4)

\* date_of_payment.strftime("%Y-%m-%d")
strftime(d, plat) ==
    FormatYear(d.year, plat) \o <<"-">> \o Pad(Decimal(d.month), 2)
        \o <<"-">> \o Pad(Decimal(d.day), 2)

At(t, p) == IF p >= 1 /\ p <= Len(t) THEN t[p] ELSE "<end>"

NoMatch == [len |-> 0, val |-> 0]

\* %m of strptime, the regular expression 1[0-2]|0[1-9]|[1-9], followed by
\* the "-" of the format: the alternatives are tried in this order.
MatchMonth(t, p) ==
    IF At(t, p) = "1" /\ At(t, p + 1) \in {"0", "1", "2"} /\ At(t, p + 2) = "-"
    THEN [len |-> 2, val |-> 10 + DigitVal(t[p + 1])]
    ELSE IF At(t, p) = "0" /\ At(t, p + 1) \in DigitSet \ {"0"} /\ At(t, p + 2) = "-"
    THEN [len |-> 2, val |-> DigitVal(t[p + 1])]
    ELSE IF At(t, p) \in DigitSet \ {"0"} /\ At(t, p + 1) = "-"
    THEN [len |-> 1, val |-> DigitVal(t[p])]
    ELSE NoMatch

\* %d of strptime, the regular expression 3[01]|[12]\d|0[1-9]|[1-9]| [1-9]:
\* the first alternative that matches is taken.
MatchDay(t, p) ==
    IF At(t, p) = "3" /\ At(t, p + 1) \in {"0", "1"}
    THEN [len |-> 2, val |-> 30 + DigitVal(t[p + 1])]
    ELSE IF At(t, p) \in {"1", "2"} /\ At(t, p + 1) \in DigitSet
    THEN [len |-> 2, val |-> 10 * DigitVal(t[p]) + DigitVal(t[p + 1])]
    ELSE IF At(t, p) = "0" /\ At(t, p + 1) \in DigitSet \ {"0"}
    THEN [len |-> 2, val |-> DigitVal(t[p + 1])]
    ELSE IF At(t, p) \in DigitSet \ {"0"}
    THEN [len |-> 1, val |-> DigitVal(t[p])]
    ELSE IF At(t, p) = " " /\ At(t, p + 1) \in DigitSet \ {"0"}
    THEN [len |-> 2, val |-> DigitVal(t[p + 1])]
    ELSE NoMatch

IsLeap(y) == (y % 4 = 0 /\ y % 100 # 0) \/ y % 400 = 0

DaysInMonth(y, m) ==
    IF m = 2 THEN (IF IsLeap(y) THEN 29 ELSE 28)
    ELSE IF m \in {4, 6, 9, 11} THEN 30 ELSE 31

ParseError == [raised |-> "ValueError"]

\* datetime.strptime(text, "%Y-%m-%d").date(): %Y is \d\d\d\d; the whole
\* text must be consumed; the fields must name a date of the calendar.
strptime(t) ==
    IF ~(\A p \in 1..4 : At(t, p) \in DigitSet) \/ At(t, 5) # "-"
    THEN ParseError
    ELSE LET year == 1000 * DigitVal(t[1]) + 100 * DigitVal(t[2])
                         + 10 * DigitVal(t[3]) + DigitVal(t[4])
             m == MatchMonth(t, 6)
             d == MatchDay(t, 6 + m.len + 1)
         IN  IF m.len = 0 \/ d.len = 0 THEN ParseError
             ELSE IF 6 + m.len + d.len # Len(t) THEN ParseError
             ELSE IF year < 1 \/ d.val > DaysInMonth(year, m.val) THEN ParseError
             ELSE [raised |-> "none",
                   date |-> [year |-> year, month |-> m.val, day |-> d.val]]

\* ------------------------------------------------------------ JsonManager
Absent == [kind |-> "absent"]

\* A file whose bytes are not valid UTF-8.
Undecodable == [kind |-> "undecodable"]

\* A file of UTF-8 text that is not JSON (the empty file is one).
InvalidJson == [kind |-> "invalid"]

JsonFile(doc) == [kind |-> "json", doc |-> doc]

EmptyDoc == [bills |-> <<>>]

\* JsonManager.read_json
read_json(file) ==
    IF file.kind = "absent" THEN [raised |-> "none", data |-> EmptyDoc]
    ELSE IF file.kind = "invalid" THEN [raised |-> "none", data |-> EmptyDoc]
    ELSE IF file.kind = "undecodable" THEN [raised |-> "UnicodeDecodeError"]
    ELSE [raised |-> "none", data |-> file.doc]

\* JsonManager.write_json
write_json(data) == JsonFile(data)

\* dict.get(key, default)
Get(d, key, default) == IF key \in DOMAIN d THEN d[key] ELSE default

SetMax(S) == CHOOSE x \in S : \A y \in S : y <= x

\* A plausible bug: the count of the records, plus one.
NewIdByCount(coll, key) == Len(coll) + 1

\* max((r.get(key, 0) for r in coll), default=0) + 1
NewId(coll, key) ==
    SetMax({0} \cup {Get(coll[k], key, 0) : k \in DOMAIN coll}) + 1

\* A plausible bug: the comparison of the filter is > instead of !=.
RemainingAbove(coll, key, id) == SelectSeq(coll, LAMBDA r : r[key] > id)

\* [r for r in coll if r[key] != id]
Remaining(coll, key, id) == SelectSeq(coll, LAMBDA r : r[key] # id)

\* The result of a method that raised.
Raised(op, arg, exc) ==
    [op |-> op, arg |-> arg, raised |-> exc, ret |-> "none", new_id |-> 0]

Returned(op, arg, ret, new_id) ==
    [op |-> op, arg |-> arg, raised |-> "none", ret |-> ret, new_id |-> new_id]

\* -------------------------------------------------------- RegisteredBills
\* A plausible bug: the value is stored as the due date.
NewBillSwapped(new_id, name, value, due_day, monthly_bill) ==
    [bill_id |-> new_id, name |-> name, value |-> value,
     due_date |-> value, monthly_bill |-> monthly_bill]

NewBill(new_id, name, value, due_day, monthly_bill) ==
    [bill_id |-> new_id, name |-> name, value |-> value,
     due_date |-> due_day, monthly_bill |-> monthly_bill]

\* RegisteredBills.read_bills, as a function of the file.
ReadBills(file) ==
    LET r == read_json(file)
    IN  IF r.raised # "none" THEN [raised |-> r.raised]
        ELSE [raised |-> "none", ret |-> Get(r.data, "bills", <<>>)]

read_bills ==
    LET r == ReadBills(billsFile)
    IN  /\ "RegisteredBills" \in managers
        /\ last' = IF r.raised # "none" THEN Raised("read_bills", "none", r.raised)
                   ELSE Returned("read_bills", "none", r.ret, 0)
        /\ UNCHANGED <<managers, billsFile, paidFile, platform, assignedBills, assignedPaid>>
        /\ UNCHANGED raceVars

add_bill(name, value, due_day, monthly_bill) ==
    LET arg == [name |-> name, value |-> value, due_day |-> due_day,
                monthly_bill |-> monthly_bill]
        r == read_json(billsFile)
    IN  /\ "RegisteredBills" \in managers
        /\ IF r.raised # "none"
           THEN /\ last' = Raised("add_bill", arg, r.raised)
                /\ UNCHANGED <<billsFile, assignedBills>>
           ELSE IF "bills" \notin DOMAIN r.data
           THEN /\ last' = Raised("add_bill", arg, "KeyError")
                /\ UNCHANGED <<billsFile, assignedBills>>
           ELSE LET bills == r.data.bills
                    new_id == NewId(bills, "bill_id")
                    new_bill == NewBill(new_id, name, value, due_day, monthly_bill)
                    data == [r.data EXCEPT !.bills = Append(bills, new_bill)]
                IN  /\ Len(bills) < MaxLen
                    /\ new_id <= MaxId
                    /\ billsFile' = write_json(data)
                    /\ last' = Returned("add_bill", arg, data.bills, new_id)
                    /\ assignedBills' = assignedBills \cup {new_id}
        /\ UNCHANGED <<managers, paidFile, platform, assignedPaid>>
        /\ UNCHANGED raceVars

delete_bill(id_bill) ==
    LET r == read_json(billsFile)
    IN  /\ "RegisteredBills" \in managers
        /\ IF r.raised # "none"
           THEN /\ last' = Raised("delete_bill", id_bill, r.raised)
                /\ UNCHANGED billsFile
           ELSE IF "bills" \notin DOMAIN r.data
           THEN /\ last' = Raised("delete_bill", id_bill, "KeyError")
                /\ UNCHANGED billsFile
           ELSE LET bills == r.data.bills
                IN  IF \E k \in DOMAIN bills : "bill_id" \notin DOMAIN bills[k]
                    THEN /\ last' = Raised("delete_bill", id_bill, "KeyError")
                         /\ UNCHANGED billsFile
                    ELSE LET updated_bills == Remaining(bills, "bill_id", id_bill)
                         IN  IF Len(bills) = Len(updated_bills)
                             THEN /\ last' = Returned("delete_bill", id_bill, FALSE, 0)
                                  /\ UNCHANGED billsFile
                             ELSE /\ billsFile' = write_json(
                                         [r.data EXCEPT !.bills = updated_bills])
                                  /\ last' = Returned("delete_bill", id_bill, TRUE, 0)
        /\ UNCHANGED <<managers, paidFile, platform, assignedBills, assignedPaid>>
        /\ UNCHANGED raceVars

\* -------------------------------------------------------------- PaidBills
NewPaidBill(new_id, id_bill, date_of_payment, plat) ==
    [id_paid_bill |-> new_id, id_bill |-> id_bill,
     payment_date |-> strftime(date_of_payment, plat)]

RECURSIVE ConvertDates(_)
\* The loop of read_paid_bills: each record's payment_date is replaced by
\* the date strptime gives; the first exception ends the loop.
ConvertDates(bills) ==
    IF Len(bills) = 0 THEN [raised |-> "none", ret |-> <<>>]
    ELSE LET bill == Head(bills)
         IN  IF "payment_date" \notin DOMAIN bill THEN [raised |-> "KeyError"]
             ELSE LET p == strptime(bill.payment_date)
                  IN  IF p.raised # "none" THEN [raised |-> p.raised]
                      ELSE LET rest == ConvertDates(Tail(bills))
                           IN  IF rest.raised # "none" THEN rest
                               ELSE [raised |-> "none",
                                     ret |-> <<[bill EXCEPT !.payment_date = p.date]>>
                                             \o rest.ret]

\* PaidBills.read_paid_bills, as a function of the file.
ReadPaidBills(file) ==
    LET r == read_json(file)
    IN  IF r.raised # "none" THEN [raised |-> r.raised]
        ELSE ConvertDates(Get(r.data, "bills", <<>>))

read_paid_bills ==
    LET r == ReadPaidBills(paidFile)
    IN  /\ "PaidBills" \in managers
        /\ last' = IF r.raised # "none"
                   THEN Raised("read_paid_bills", "none", r.raised)
                   ELSE Returned("read_paid_bills", "none", r.ret, 0)
        /\ UNCHANGED <<managers, billsFile, paidFile, platform, assignedBills, assignedPaid>>
        /\ UNCHANGED raceVars

pay_bill(id_bill, date_of_payment) ==
    LET arg == [id_bill |-> id_bill, date_of_payment |-> date_of_payment]
        r == read_json(paidFile)
    IN  /\ "PaidBills" \in managers
        /\ IF r.raised # "none"
           THEN /\ last' = Raised("pay_bill", arg, r.raised)
                /\ UNCHANGED <<paidFile, assignedPaid>>
           ELSE IF "bills" \notin DOMAIN r.data
           THEN /\ last' = Raised("pay_bill", arg, "KeyError")
                /\ UNCHANGED <<paidFile, assignedPaid>>
           ELSE LET paid_bills == r.data.bills
                    new_id == NewId(paid_bills, "id_paid_bill")
                    new_paid_bill == NewPaidBill(new_id, id_bill, date_of_payment,
                                                 platform)
                    data == [r.data EXCEPT !.bills = Append(paid_bills, new_paid_bill)]
                IN  /\ Len(paid_bills) < MaxLen
                    /\ new_id <= MaxId
                    /\ paidFile' = write_json(data)
                    /\ last' = Returned("pay_bill", arg, data.bills, new_id)
                    /\ assignedPaid' = assignedPaid \cup {new_id}
        /\ UNCHANGED <<managers, billsFile, platform, assignedBills>>
        /\ UNCHANGED raceVars

delete_paid_bill(id_paid_bill) ==
    LET r == read_json(paidFile)
    IN  /\ "PaidBills" \in managers
        /\ IF r.raised # "none"
           THEN /\ last' = Raised("delete_paid_bill", id_paid_bill, r.raised)
                /\ UNCHANGED paidFile
           ELSE IF "bills" \notin DOMAIN r.data
           THEN /\ last' = Raised("delete_paid_bill", id_paid_bill, "KeyError")
                /\ UNCHANGED paidFile
           ELSE LET paid_bills == r.data.bills
                IN  IF \E k \in DOMAIN paid_bills :
                           "id_paid_bill" \notin DOMAIN paid_bills[k]
                    THEN /\ last' = Raised("delete_paid_bill", id_paid_bill, "KeyError")
                         /\ UNCHANGED paidFile
                    ELSE LET updated_paid_bills ==
                                 Remaining(paid_bills, "id_paid_bill", id_paid_bill)
                         IN  IF Len(paid_bills) = Len(updated_paid_bills)
                             THEN /\ last' = Returned("delete_paid_bill", id_paid_bill,
                                                      FALSE, 0)
                                  /\ UNCHANGED paidFile
                             ELSE /\ paidFile' = write_json(
                                         [r.data EXCEPT !.bills = updated_paid_bills])
                                  /\ last' = Returned("delete_paid_bill", id_paid_bill,
                                                      TRUE, 0)
        /\ UNCHANGED <<managers, billsFile, platform, assignedBills, assignedPaid>>
        /\ UNCHANGED raceVars

\* ------------------------------------------------------------------ inputs
Platforms == {"glibc", "padded"}

\* The arguments of add_bill: value is in tenths (1205 is 120.5).
AddInputs ==
    {[name |-> "Electric", value |-> 1205, due_day |-> 15, monthly_bill |-> TRUE],
     [name |-> "Boleto", value |-> 1000, due_day |-> 10, monthly_bill |-> FALSE]}

Date(y, m, d) == [year |-> y, month |-> m, day |-> d]

\* The arguments of pay_bill.
PayInputs ==
    {[id_bill |-> 5, date_of_payment |-> Date(2024, 3, 5)],
     [id_bill |-> 1, date_of_payment |-> Date(987, 12, 31)]}

\* The IDs a delete is called with.
DeleteIds == 1..MaxId

\* The files of a store that holds nothing yet.
FreshFiles == {Absent, InvalidJson, JsonFile(EmptyDoc)}

NoCall == [op |-> "none", arg |-> "none", raised |-> "none", ret |-> "none",
           new_id |-> 0]

Writers == {1, 2}

RaceIdle ==
    /\ pc = [w \in Writers |-> "idle"]
    /\ local = [w \in Writers |-> EmptyDoc]
    /\ callArg = [w \in Writers |-> "none"]
    /\ newIdOf = [w \in Writers |-> 0]
    /\ writesSeen = [w \in Writers |-> 0]
    /\ nWrites = 0
    /\ lastWriter = 0

\* A single process that has constructed both managers (as main.py does), on
\* stores that hold nothing yet.
Init ==
    /\ managers = {"RegisteredBills", "PaidBills"}
    /\ billsFile \in FreshFiles
    /\ paidFile \in FreshFiles
    /\ platform \in Platforms
    /\ last = NoCall
    /\ assignedBills = {}
    /\ assignedPaid = {}
    /\ RaceIdle

Next ==
    \/ read_bills
    \/ \E a \in AddInputs : add_bill(a.name, a.value, a.due_day, a.monthly_bill)
    \/ \E i \in DeleteIds : delete_bill(i)
    \/ read_paid_bills
    \/ \E a \in PayInputs : pay_bill(a.id_bill, a.date_of_payment)
    \/ \E i \in DeleteIds : delete_paid_bill(i)

Spec == Init /\ [][Next]_vars

\* ------------------------------------------------- files found on the disk
\* A registered bill as a file written earlier holds it.
StoredBill(id, name) ==
    [bill_id |-> id, name |-> name, value |-> 800, due_date |-> 5,
     monthly_bill |-> TRUE]

StoredPaid(id, id_bill, text) ==
    [id_paid_bill |-> id, id_bill |-> id_bill, payment_date |-> text]

\* "2024-03-05"
Text_2024_03_05 == <<"2", "0", "2", "4", "-", "0", "3", "-", "0", "5">>

\* "2024-3-5": not the stored form, and strptime reads it
Text_2024_3_5 == <<"2", "0", "2", "4", "-", "3", "-", "5">>

\* "2024-02-30": no such day
Text_2024_02_30 == <<"2", "0", "2", "4", "-", "0", "2", "-", "3", "0">>

\* "05/03/2024"
Text_05_03_2024 == <<"0", "5", "/", "0", "3", "/", "2", "0", "2", "4">>

\* A JSON object that has no "bills" key.
NoBillsKeyDoc == [contas |-> <<>>]

\* The files a RegisteredBills store may find at its path.
AnyBillsFiles ==
    FreshFiles \cup
    {Undecodable,
     JsonFile(NoBillsKeyDoc),
     JsonFile([bills |-> <<StoredBill(1, "Luz")>>, version |-> 1]),
     JsonFile([bills |-> <<StoredBill(3, "Luz"), StoredBill(1, "Gas"),
                           StoredBill(2, "Net")>>]),
     JsonFile([bills |-> <<StoredBill(2, "Luz"), StoredBill(1, "Gas"),
                           StoredBill(2, "Net")>>]),
     JsonFile([bills |-> <<[name |-> "Luz"]>>])}

\* The files a PaidBills store may find at its path.
AnyPaidFiles ==
    FreshFiles \cup
    {Undecodable,
     JsonFile(NoBillsKeyDoc),
     JsonFile([bills |-> <<StoredPaid(1, 5, Text_2024_03_05)>>]),
     JsonFile([bills |-> <<StoredPaid(2, 5, Text_2024_03_05),
                           StoredPaid(1, 7, Text_05_03_2024),
                           StoredPaid(3, 5, Text_2024_3_5)>>]),
     JsonFile([bills |-> <<StoredPaid(1, 5, Text_2024_02_30)>>]),
     JsonFile([bills |-> <<[id_paid_bill |-> 1, id_bill |-> 5]>>])}

\* A single process that has constructed one manager, on whatever file is at
\* its path.
InitAnyFile ==
    /\ managers \in {{"RegisteredBills"}, {"PaidBills"}}
    /\ billsFile \in IF "RegisteredBills" \in managers THEN AnyBillsFiles ELSE {Absent}
    /\ paidFile \in IF "PaidBills" \in managers THEN AnyPaidFiles ELSE {Absent}
    /\ platform \in Platforms
    /\ last = NoCall
    /\ assignedBills = {}
    /\ assignedPaid = {}
    /\ RaceIdle

SpecAnyFile == InitAnyFile /\ [][Next]_vars

\* ------------------------------------------- two writers sharing one path
\* add_bill as the steps read-entire-file, modify-in-memory,
\* write-entire-file, taken by two writers with no lock between them.
RaceRead(w) ==
    /\ pc[w] = "call"
    /\ LET r == read_json(billsFile)
       IN  IF r.raised # "none" \/ "bills" \notin DOMAIN r.data
           THEN /\ pc' = [pc EXCEPT ![w] = "raised"]
                /\ UNCHANGED <<local, writesSeen>>
           ELSE /\ pc' = [pc EXCEPT ![w] = "modify"]
                /\ local' = [local EXCEPT ![w] = r.data]
                /\ writesSeen' = [writesSeen EXCEPT ![w] = nWrites]
    /\ UNCHANGED <<callArg, newIdOf, nWrites, lastWriter>>
    /\ UNCHANGED seqVars

RaceModify(w) ==
    /\ pc[w] = "modify"
    /\ LET bills == local[w].bills
           new_id == NewId(bills, "bill_id")
           a == callArg[w]
           new_bill == NewBill(new_id, a.name, a.value, a.due_day, a.monthly_bill)
       IN  /\ Len(bills) < MaxLen
           /\ new_id <= MaxId
           /\ newIdOf' = [newIdOf EXCEPT ![w] = new_id]
           /\ local' = [local EXCEPT ![w] = [@ EXCEPT !.bills = Append(bills, new_bill)]]
    /\ pc' = [pc EXCEPT ![w] = "write"]
    /\ UNCHANGED <<callArg, writesSeen, nWrites, lastWriter>>
    /\ UNCHANGED seqVars

\* A plausible change: the write merges what the file holds now with the
\* new record, as a locked read-modify-write would.
RaceWriteMerged(w) ==
    /\ pc[w] = "write"
    /\ LET now == read_json(billsFile).data.bills
           mine == local[w].bills[Len(local[w].bills)]
       IN  billsFile' = write_json([local[w] EXCEPT !.bills =
               Append(now, [mine EXCEPT !.bill_id = NewId(now, "bill_id")])])
    /\ nWrites' = nWrites + 1
    /\ lastWriter' = w
    /\ pc' = [pc EXCEPT ![w] = "done"]
    /\ UNCHANGED <<local, callArg, newIdOf, writesSeen>>
    /\ UNCHANGED <<managers, paidFile, platform, last, assignedBills, assignedPaid>>

RaceWrite(w) ==
    /\ pc[w] = "write"
    /\ billsFile' = write_json(local[w])
    /\ nWrites' = nWrites + 1
    /\ lastWriter' = w
    /\ pc' = [pc EXCEPT ![w] = "done"]
    /\ UNCHANGED <<local, callArg, newIdOf, writesSeen>>
    /\ UNCHANGED <<managers, paidFile, platform, last, assignedBills, assignedPaid>>

\* The files the two writers may find at the shared path.
RaceFiles ==
    FreshFiles \cup {JsonFile([bills |-> <<StoredBill(1, "Luz")>>, version |-> 1])}

\* Each writer is about to run one add_bill, with arguments of its own.
InitRace ==
    /\ managers = {"RegisteredBills"}
    /\ billsFile \in RaceFiles
    /\ paidFile = Absent
    /\ platform \in Platforms
    /\ last = NoCall
    /\ assignedBills = {}
    /\ assignedPaid = {}
    /\ pc = [w \in Writers |-> "call"]
    /\ local = [w \in Writers |-> EmptyDoc]
    /\ callArg \in [Writers -> AddInputs]
    /\ newIdOf = [w \in Writers |-> 0]
    /\ writesSeen = [w \in Writers |-> 0]
    /\ nWrites = 0
    /\ lastWriter = 0

NextRace ==
    \/ \E w \in Writers : RaceRead(w)
    \/ \E w \in Writers : RaceModify(w)
    \/ \E w \in Writers : RaceWrite(w)

SpecRace == InitRace /\ [][NextRace]_vars

\* ================================================================= claims
\* The collection a store holds: the "bills" of its file, and nothing when
\* the file is absent or is not JSON.
Stored(file) ==
    IF file.kind = "json" /\ "bills" \in DOMAIN file.doc THEN file.doc.bills
    ELSE <<>>

\* The store has a collection: a read of its file gives a document with one.
HasCollection(file) ==
    \/ file.kind \in {"absent", "invalid"}
    \/ file.kind = "json" /\ "bills" \in DOMAIN file.doc

\* The IDs of the records of a collection.
IdsIn(coll, key) == {coll[k][key] : k \in {j \in DOMAIN coll : key \in DOMAIN coll[j]}}

MaxIdIn(coll, key) == SetMax({0} \cup IdsIn(coll, key))

\* ---- C1
\* C1: from an empty store, every ID an add_bill (likewise a pay_bill)
\* assigns is greater than the largest ID the store holds and was never
\* assigned before in the run, even to a record deleted since.
C1_IdsNeverReused ==
    [][/\ (last'.op = "add_bill" /\ last'.raised = "none") =>
              /\ last'.new_id > MaxIdIn(Stored(billsFile), "bill_id")
              /\ last'.new_id \notin assignedBills
       /\ (last'.op = "pay_bill" /\ last'.raised = "none") =>
              /\ last'.new_id > MaxIdIn(Stored(paidFile), "id_paid_bill")
              /\ last'.new_id \notin assignedPaid]_vars

\* ---- C10
\* C10: from an empty or absent file, after any adds and deletes of a single
\* process, the records each store holds have pairwise distinct IDs, all of
\* them integers >= 1.
DistinctIds(coll, key) ==
    \A j \in DOMAIN coll :
        /\ key \in DOMAIN coll[j]
        /\ coll[j][key] \in Nat \ {0}
        /\ \A k \in DOMAIN coll : j # k => coll[j][key] # coll[k][key]

C10_StoredIdsDistinct ==
    /\ DistinctIds(Stored(billsFile), "bill_id")
    /\ DistinctIds(Stored(paidFile), "id_paid_bill")

\* Two records are held, the second added after a record was deleted.
C10_Witness ==
    /\ last.op = "add_bill"
    /\ Len(Stored(billsFile)) = 2
    /\ Cardinality(assignedBills) = 3

\* ---- C2
\* C2: add_bill on a store whose collection is C assigns the ID (largest
\* bill_id in C, or 0) + 1, appends exactly the record of that ID with
\* due_date = due_day and the name, value and monthly_bill given, writes it
\* to the file, and returns what a following read_bills() returns.
C2_AddBillAppendsOneRecord ==
    [][(last'.op = "add_bill" /\ HasCollection(billsFile)) =>
           LET C == Stored(billsFile)
               a == last'.arg
               id == MaxIdIn(C, "bill_id") + 1
           IN  /\ last'.raised = "none"
               /\ last'.new_id = id
               /\ billsFile'.kind = "json"
               /\ billsFile'.doc.bills =
                      Append(C, [bill_id |-> id, name |-> a.name, value |-> a.value,
                                 due_date |-> a.due_day,
                                 monthly_bill |-> a.monthly_bill])
               /\ ReadBills(billsFile').raised = "none"
               /\ last'.ret = ReadBills(billsFile').ret]_vars

\* An add_bill on a store that held one record gave the ID 2.
C2_Witness ==
    /\ last.op = "add_bill"
    /\ last.raised = "none"
    /\ last.new_id = 2
    /\ Len(last.ret) = 2
    /\ last.ret[2].due_date = last.arg.due_day

\* ---- C3
\* C3: in any state of a store that has a collection, delete_bill(i)
\* (likewise delete_paid_bill(i)) never raises; it returns true when a record
\* with ID i is held and false when none is; called again at once with the
\* same i it returns false.
DeleteContract(before, now, op, key, file) ==
    (now.op = op /\ HasCollection(file)) =>
        /\ now.raised = "none"
        /\ now.ret = (now.arg \in IdsIn(Stored(file), key))
        /\ (before.op = op /\ before.arg = now.arg) => now.ret = FALSE

C3_DeleteTwice ==
    [][/\ DeleteContract(last, last', "delete_bill", "bill_id", billsFile)
       /\ DeleteContract(last, last', "delete_paid_bill", "id_paid_bill",
                         paidFile)]_vars

\* ---- C4
\* C4: a read of a store whose file is absent, or does not parse as JSON,
\* returns the empty collection, raises nothing and leaves the file as it is.
Unreadable(file) == file.kind \in {"absent", "invalid", "undecodable"}

C4_ReadOfMissingOrCorruptFile ==
    [][/\ (last'.op = "read_bills" /\ Unreadable(billsFile)) =>
              /\ read_json(billsFile) = [raised |-> "none", data |-> EmptyDoc]
              /\ last'.raised = "none"
              /\ last'.ret = <<>>
              /\ billsFile' = billsFile
       /\ (last'.op = "read_paid_bills" /\ Unreadable(paidFile)) =>
              /\ read_json(paidFile) = [raised |-> "none", data |-> EmptyDoc]
              /\ last'.raised = "none"
              /\ last'.ret = <<>>
              /\ paidFile' = paidFile]_vars

\* ---- C5
\* C5: whatever the file holds, the document read_json returns has the key
\* "bills", so no method fails for a missing key.
C5_BillsKeyAfterAnyRead ==
    \A file \in {billsFile, paidFile} :
        read_json(file).raised = "none" => "bills" \in DOMAIN read_json(file).data

\* ---- C6
\* C6: read_paid_bills returns the whole collection without raising; a
\* record whose stored payment_date is not a valid YYYY-MM-DD text gets the
\* null date, every other record the date its text names.
NullDate == [year |-> 0, month |-> 0, day |-> 0]

\* The text is dddd-dd-dd and names a day of the calendar.
IsIsoDate(t) ==
    /\ Len(t) = 10
    /\ \A p \in {1, 2, 3, 4, 6, 7, 9, 10} : t[p] \in DigitSet
    /\ t[5] = "-"
    /\ t[8] = "-"
    /\ LET y == 1000 * DigitVal(t[1]) + 100 * DigitVal(t[2]) + 10 * DigitVal(t[3])
                    + DigitVal(t[4])
           m == 10 * DigitVal(t[6]) + DigitVal(t[7])
           d == 10 * DigitVal(t[9]) + DigitVal(t[10])
       IN  y >= 1 /\ m \in 1..12 /\ d >= 1 /\ d <= DaysInMonth(y, m)

IsoDateOf(t) ==
    [year |-> 1000 * DigitVal(t[1]) + 100 * DigitVal(t[2]) + 10 * DigitVal(t[3])
                  + DigitVal(t[4]),
     month |-> 10 * DigitVal(t[6]) + DigitVal(t[7]),
     day |-> 10 * DigitVal(t[9]) + DigitVal(t[10])]

C6_MalformedDateGivesNullDate ==
    [][(/\ last'.op = "read_paid_bills"
        /\ paidFile.kind = "json"
        /\ "bills" \in DOMAIN paidFile.doc
        /\ \A k \in DOMAIN paidFile.doc.bills :
               "payment_date" \in DOMAIN paidFile.doc.bills[k]) =>
           LET C == paidFile.doc.bills
           IN  /\ last'.raised = "none"
               /\ Len(last'.ret) = Len(C)
               /\ \A k \in DOMAIN C :
                      last'.ret[k].payment_date =
                          IF IsIsoDate(C[k].payment_date)
                          THEN IsoDateOf(C[k].payment_date)
                          ELSE NullDate]_vars

\* ---- C7
\* C7: after pay_bill(b, d) the record added is stored with payment_date in
\* the text form YYYY-MM-DD, a following read_paid_bills() returns it with
\* id_bill = b and payment_date = d, and that date formats to the stored
\* text again.
C7_PaymentDateRoundTrip ==
    [][(last'.op = "pay_bill" /\ last'.raised = "none") =>
           LET n == Len(Stored(paidFile'))
               stored == Stored(paidFile')[n]
               read == ReadPaidBills(paidFile')
           IN  /\ stored.id_paid_bill = last'.new_id
               /\ IsIsoDate(stored.payment_date)
               /\ read.raised = "none"
               /\ read.ret[n].id_bill = last'.arg.id_bill
               /\ read.ret[n].payment_date = last'.arg.date_of_payment
               /\ strftime(read.ret[n].payment_date, platform) = stored.payment_date]_vars

\* ---- C8
\* C8: when both writers read the file before either writes it, the file
\* ends holding the last writer's record only: the other add is lost, and
\* both writers were assigned the same new ID.
C8_LostUpdate ==
    (/\ \A w \in Writers : pc[w] = "done"
     /\ \A w \in Writers : writesSeen[w] = 0) =>
        LET bills == Stored(billsFile)
            a == callArg[lastWriter]
        IN  /\ newIdOf[1] = newIdOf[2]
            /\ bills = local[lastWriter].bills
            /\ Cardinality({k \in DOMAIN bills : bills[k].bill_id >= newIdOf[1]}) = 1
            /\ bills[Len(bills)] =
                   [bill_id |-> newIdOf[lastWriter], name |-> a.name, value |-> a.value,
                    due_date |-> a.due_day, monthly_bill |-> a.monthly_bill]

\* Both writers read before either wrote, they add different bills, and
\* both have returned.
C8_Witness ==
    /\ \A w \in Writers : pc[w] = "done"
    /\ \A w \in Writers : writesSeen[w] = 0
    /\ callArg[1] # callArg[2]
    /\ lastWriter = 2
    /\ Len(Stored(billsFile)) = 2

\* ---- C9
\* C9: delete_bill(i) (likewise delete_paid_bill(i)) changes the stored
\* collection only by removing the records whose ID is i: the others stay,
\* fields and relative order unchanged; when no record has ID i the file is
\* not written.
DeleteFrame(now, op, key, file, fileAfter) ==
    (now.op = op) =>
        IF now.raised = "none" /\ now.ret = TRUE
        THEN /\ now.arg \in IdsIn(Stored(file), key)
             /\ fileAfter.kind = "json"
             /\ fileAfter.doc =
                    [file.doc EXCEPT !.bills =
                        SelectSeq(Stored(file), LAMBDA r : r[key] # now.arg)]
        ELSE /\ fileAfter = file
             /\ now.raised = "none" => now.arg \notin IdsIn(Stored(file), key)

C9_DeleteRemovesOnlyThatId ==
    [][/\ DeleteFrame(last', "delete_bill", "bill_id", billsFile, billsFile')
       /\ DeleteFrame(last', "delete_paid_bill", "id_paid_bill", paidFile,
                      paidFile')]_vars

\* A delete removed one record of three and left the other two in their
\* order, which is not the order of their IDs.
C9_Witness ==
    /\ last.op = "delete_bill"
    /\ last.raised = "none"
    /\ last.ret = TRUE
    /\ Len(Stored(billsFile)) = 2
    /\ Stored(billsFile)[1].bill_id > Stored(billsFile)[2].bill_id

====
